---- MODULE Spec2Model ----
(***************************************************************************)
(* Model of sample_physician_scheduler.py: main() builds a grid of boolean *)
(* decision variables shifts[(p, d, s)], posts five constraint families    *)
(* and a fairness objective on a CP model, calls the solver once, and      *)
(* prints either the schedule or "No solution found.", followed by the     *)
(* solver statistics.                                                      *)
(*                                                                         *)
(* main() takes no input: Spec is the run of main() as written, started    *)
(* from SourceConfig, the record of its literals num_physicians and        *)
(* num_days.  A lookup of a variable the grid does not hold raises         *)
(* KeyError and ends main().  The objective of lines 76-77 multiplies two  *)
(* linear expressions, which the CP-SAT library rejects with TypeError:    *)
(* main() ends there, before a solver exists.  The solver is modelled by   *)
(* its contract: a returned assignment satisfies every posted constraint,  *)
(* OPTIMAL is returned only for a minimiser of the objective, INFEASIBLE   *)
(* only when no assignment exists.                                         *)
(*                                                                         *)
(* ScenarioSpec is the scheduler of the specification run on the small     *)
(* instances of its test scenarios, which main() does not build: no        *)
(* physician is exempt from night shifts, the horizon has no day 5 / day 6 *)
(* pair, and the solver accepts the objective.  It shares with Spec the    *)
(* grid, the coverage, one-shift, rest and fairness constraints, the       *)
(* solver call and the decoder.                                            *)
(***************************************************************************)
EXTENDS Integers, Sequences, FiniteSets

VARIABLES cfg, pc, i, shifts, model, objective, status, value_of, reads, out

vars == <<cfg, pc, i, shifts, model, objective, status, value_of, reads, out>>

(***************************************************************************)
(* Literals of main()                                                      *)
(***************************************************************************)
num_shifts == 3
MorningShift == 0
NightShift == 2
MinCoverage == 1
MinPeakCoverage == 2
WeekLength == 7
PeakShifts == {0, 1}
DrSmith == 8
DrJones == 9
Saturday == 5
Sunday == 6

SourceConfig == [num_physicians |-> 10, num_days |-> 7]

all_physicians(c) == 0 .. (c.num_physicians - 1)
all_shifts == 0 .. (num_shifts - 1)
all_days(c) == 0 .. (c.num_days - 1)

\* The keys added to the dict shifts for physician p and day d.
NewBoolVars(p, d) == {<<p, d, s>> : s \in all_shifts}

(***************************************************************************)
(* Linear constraints lo <= sum(pos) - sum(neg) <= hi over 0/1 variables.  *)
(***************************************************************************)
AtLeast(fam, keys, n) ==
    [family |-> fam, pos |-> keys, neg |-> {}, lo |-> n, hi |-> Cardinality(keys)]

AtMost(fam, keys, n) ==
    [family |-> fam, pos |-> keys, neg |-> {}, lo |-> 0, hi |-> n]

Equal(fam, left, right) ==
    [family |-> fam, pos |-> left, neg |-> right, lo |-> 0, hi |-> 0]

\* Value of the constraint's linear expression under assignment v (the set
\* of variables whose value is 1).
LinValue(v, c) == Cardinality(c.pos \cap v) - Cardinality(c.neg \cap v)

Holds(v, c) == c.lo <= LinValue(v, c) /\ LinValue(v, c) <= c.hi

AllSat(v, cs) == \A c \in cs : Holds(v, c)

Column(c, d, s) == {<<p, d, s>> : p \in all_physicians(c)}

\* 1. Coverage requirements, iteration d of "for d in all_days"
CoverageBug(c, d) ==
    {AtLeast("coverage", Column(c, d, s), MinCoverage) : s \in all_shifts}

Coverage(c, d) ==
    {AtLeast("coverage", Column(c, d, s), MinCoverage) : s \in all_shifts}
    \cup
    {AtLeast("coverage", Column(c, d, s), MinPeakCoverage) : s \in PeakShifts}

\* 2. At most one shift per day, iteration p of "for p in all_physicians"
OneShiftPerDayBug(c, p) ==
    {AtMost("one_shift", {<<p, d, s>> : s \in all_shifts}, 2) : d \in all_days(c)}

OneShiftPerDay(c, p) ==
    {AtMost("one_shift", {<<p, d, s>> : s \in all_shifts}, 1) : d \in all_days(c)}

\* 2. Rest period: no night shift followed by the next day's morning shift
RestPair(p, d) == {<<p, d, NightShift>>, <<p, (d + 1) % WeekLength, MorningShift>>}

RestPeriodBug(c, p) ==
    {AtMost("rest", RestPair(p, d), 1) : d \in {e \in all_days(c) : e < c.num_days}}

RestPeriod(c, p) ==
    {AtMost("rest", RestPair(p, d), 1) : d \in {e \in all_days(c) : e < c.num_days - 1}}

\* 3. Fairness: equal number of night shifts
\* The variables summed in night_shifts[p].
night_shifts(c, p) == {<<p, d, NightShift>> : d \in all_days(c)}

\* Iteration p1 of "for p1 in all_physicians"
FairnessBug(c, p1) ==
    {Equal("fairness", night_shifts(c, p1), night_shifts(c, p2)) :
        p2 \in {q \in all_physicians(c) : p1 < q /\ q < c.num_physicians - 1}}

Fairness(c, p1) ==
    {Equal("fairness", night_shifts(c, p1), night_shifts(c, p2)) :
        p2 \in {q \in all_physicians(c) : p1 < q}}

\* 4. Senior physician rules, iteration d of "for d in all_days": the two
\* model.Add statements in their order.
SeniorRulesBug(c, d) ==
    << {Equal("senior", {<<DrSmith, d, NightShift>>}, {})},
       {Equal("senior", {<<DrJones, d, MorningShift>>}, {})} >>

SeniorRules(c, d) ==
    << {Equal("senior", {<<DrSmith, d, NightShift>>}, {})},
       {Equal("senior", {<<DrJones, d, NightShift>>}, {})} >>

\* 5. Weekend rules, iteration p of "for p in all_physicians"
WeekendRulesBug(c, p) ==
    {Equal("weekend", {<<p, Saturday, s>>}, {<<p, Saturday, s>>}) : s \in all_shifts}

WeekendRules(c, p) ==
    {Equal("weekend", {<<p, Saturday, s>>}, {<<p, Sunday, s>>}) : s \in all_shifts}

\* Objective: the physician pairs whose squared difference of total shifts
\* is summed.
ObjectivePairs(c) ==
    {pr \in all_physicians(c) \X all_physicians(c) : pr[1] < pr[2]}

\* total_shifts[p] is a linear expression when the grid has a variable for
\* p, and the integer 0 otherwise; the product of two linear expressions
\* raises TypeError in the first term of the sum.
ProductRaises(c) == ObjectivePairs(c) # {} /\ c.num_days * num_shifts > 0

total_shifts(v, p) == Cardinality({k \in v : k[1] = p})

RECURSIVE SumSquares(_, _)
SumSquares(v, pairs) ==
    IF pairs = {} THEN 0
    ELSE LET pr == CHOOSE x \in pairs : TRUE
             diff == total_shifts(v, pr[1]) - total_shifts(v, pr[2])
         IN  diff * diff + SumSquares(v, pairs \ {pr})

ObjectiveValue(v, obj) == SumSquares(v, obj)

(***************************************************************************)
(* The solver (cp_model.CpSolver().Solve), by its contract.                *)
(***************************************************************************)

\* Bounds propagation on the posted constraints: F1 / F0 are the variables
\* already forced to 1 / 0.  TRUE when some constraint can no longer be met,
\* which proves that no assignment satisfies cs.
MinValue(c, F1, F0) == Cardinality(c.pos \cap F1) - Cardinality(c.neg \ F0)

MaxValue(c, F1, F0) == Cardinality(c.pos \ F0) - Cardinality(c.neg \cap F1)

RECURSIVE Propagate(_, _, _)
Propagate(cs, F1, F0) ==
    LET fixed == F1 \cup F0
        atMax == {c \in cs : MaxValue(c, F1, F0) = c.lo}
        atMin == {c \in cs : MinValue(c, F1, F0) = c.hi}
        new1 == (UNION {c.pos : c \in atMax} \cup UNION {c.neg : c \in atMin}) \ fixed
        new0 == (UNION {c.neg : c \in atMax} \cup UNION {c.pos : c \in atMin}) \ fixed
    IN  IF \E c \in cs : MinValue(c, F1, F0) > c.hi \/ MaxValue(c, F1, F0) < c.lo
        THEN TRUE
        ELSE IF new1 \cap new0 # {} THEN TRUE
        ELSE IF new1 \cup new0 = {} THEN FALSE
        ELSE Propagate(cs, F1 \cup new1, F0 \cup new0)

PropagationConflict(cs) == Propagate(cs, {}, {})

\* Exhaustive search, day by day: the assignments of each day that satisfy
\* the constraints on that day's variables alone, then their combinations.
DayKeys(c, d) == {<<p, d, s>> : p \in all_physicians(c), s \in all_shifts}

DayLocal(c, cs, d) == {x \in cs : (x.pos \cup x.neg) \subseteq DayKeys(c, d)}

DayPatterns(c, cs, d) ==
    LET local == DayLocal(c, cs, d)
    IN  {a \in SUBSET DayKeys(c, d) : AllSat(a, local)}

RECURSIVE ExactExtend(_, _, _, _)
ExactExtend(c, cs, d, partials) ==
    IF d = c.num_days \/ partials = {} THEN partials
    ELSE LET pats == DayPatterns(c, cs, d)
         IN  ExactExtend(c, cs, d + 1, {v \cup a : v \in partials, a \in pats})

ExactSolutions(c, cs) ==
    {v \in ExactExtend(c, cs, 0, {{}}) : AllSat(v, cs)}

\* Every assignment of the grid that satisfies cs.
FeasibleAssignments(c, cs) ==
    IF PropagationConflict(cs) THEN {} ELSE ExactSolutions(c, cs)

SolverOutcomes(c, cs, obj) ==
    LET feas == FeasibleAssignments(c, cs)
        best == {v \in feas :
                    \A w \in feas : ObjectiveValue(v, obj) <= ObjectiveValue(w, obj)}
    IN  {<<"OPTIMAL", v>> : v \in best}
        \cup {<<"FEASIBLE", v>> : v \in feas}
        \cup (IF feas = {} THEN {<<"INFEASIBLE", {}>>} ELSE {})
        \cup {<<"UNKNOWN", {}>>}

(***************************************************************************)
(* main(), step by step; i is the index of the running loop.               *)
(***************************************************************************)
Start(c) ==
    /\ cfg = c
    /\ pc = "create"
    /\ i = 0
    /\ shifts = {}
    /\ model = {}
    /\ objective = {}
    /\ status = "NONE"
    /\ value_of = {}
    /\ reads = {}
    /\ out = <<>>

Init == Start(SourceConfig)

\* One iteration of "for d in all_days" inside "for p in all_physicians".
CreateVariables ==
    /\ pc = "create"
    /\ IF i < cfg.num_physicians * cfg.num_days
       THEN /\ shifts' = shifts \cup NewBoolVars(i \div cfg.num_days, i % cfg.num_days)
            /\ i' = i + 1
            /\ pc' = pc
       ELSE shifts' = shifts /\ i' = 0 /\ pc' = "coverage"
    /\ UNCHANGED <<cfg, model, objective, status, value_of, reads, out>>

\* One iteration of a posting loop. stmts is the sequence of the iteration's
\* groups of model.Add statements, in the order of execution. The lookup
\* shifts[key] of a missing key raises KeyError and main() ends: the groups
\* before the failing one stay posted. The loop ends after `bound`
\* iterations.
Post(stmts, bound, next) ==
    LET Found(k) == \A c \in stmts[k] : (c.pos \cup c.neg) \subseteq shifts
        done == {k \in 1 .. Len(stmts) : \A j \in 1 .. k : Found(j)}
    IN  IF i >= bound
        THEN model' = model /\ i' = 0 /\ pc' = next
        ELSE /\ model' = model \cup UNION {stmts[k] : k \in done}
             /\ IF done = 1 .. Len(stmts)
                THEN i' = i + 1 /\ pc' = pc
                ELSE i' = i /\ pc' = "KeyError"

PostCoverage ==
    /\ pc = "coverage"
    /\ Post(<<Coverage(cfg, i)>>, cfg.num_days, "rest")
    /\ UNCHANGED <<cfg, shifts, objective, status, value_of, reads, out>>

PostShiftLengthAndRest ==
    /\ pc = "rest"
    /\ Post(<<OneShiftPerDay(cfg, i) \cup RestPeriod(cfg, i)>>, cfg.num_physicians, "fairness")
    /\ UNCHANGED <<cfg, shifts, objective, status, value_of, reads, out>>

PostFairness ==
    /\ pc = "fairness"
    /\ Post(<<Fairness(cfg, i)>>, cfg.num_physicians, "senior")
    /\ UNCHANGED <<cfg, shifts, objective, status, value_of, reads, out>>

PostSeniorRules ==
    /\ pc = "senior"
    /\ Post(SeniorRules(cfg, i), cfg.num_days, "weekend")
    /\ UNCHANGED <<cfg, shifts, objective, status, value_of, reads, out>>

PostWeekendRules ==
    /\ pc = "weekend"
    /\ Post(<<WeekendRules(cfg, i)>>, cfg.num_physicians, "objective")
    /\ UNCHANGED <<cfg, shifts, objective, status, value_of, reads, out>>

SetObjective ==
    /\ pc = "objective"
    /\ IF ProductRaises(cfg)
       THEN objective' = objective /\ pc' = "TypeError"
       ELSE objective' = ObjectivePairs(cfg) /\ pc' = "solve"
    /\ UNCHANGED <<cfg, i, shifts, model, status, value_of, reads, out>>

Solve ==
    /\ pc = "solve"
    /\ \E o \in SolverOutcomes(cfg, model, objective) :
          /\ status' = o[1]
          /\ value_of' = o[2]
    /\ pc' = "decode"
    /\ UNCHANGED <<cfg, i, shifts, model, objective, reads, out>>

SolutionFound(st) == st = "OPTIMAL" \/ st = "FEASIBLE"

\* solver.Value(shifts[(p, d, s)]) == 1
Value(key) == IF key \in value_of THEN 1 ELSE 0

Schedule ==
    [d \in all_days(cfg) |->
        [s \in all_shifts |-> {p \in all_physicians(cfg) : Value(<<p, d, s>>) = 1}]]

Line(kind, schedule) == [kind |-> kind, schedule |-> schedule]

\* The statistics block of lines 98-103: the status name, followed by
\* whatever solver.NumConflicts(), NumBranches() and WallTime() return.  The
\* three values are printed as returned and are not constrained: each field
\* names the solver query whose result the line carries.
Statistics(name) ==
    [kind |-> "Statistics", status |-> name,
     conflicts |-> "solver.NumConflicts()",
     branches  |-> "solver.NumBranches()",
     wall_time |-> "solver.WallTime()"]

PrintSolution ==
    /\ pc = "decode"
    /\ SolutionFound(status)
    /\ reads' = shifts
    /\ out' = Append(out, Line("Solution found:", Schedule))
    /\ pc' = "statistics"
    /\ UNCHANGED <<cfg, i, shifts, model, objective, status, value_of>>

PrintNoSolution ==
    /\ pc = "decode"
    /\ ~SolutionFound(status)
    /\ out' = Append(out, Line("No solution found.", <<>>))
    /\ pc' = "statistics"
    /\ UNCHANGED <<cfg, i, shifts, model, objective, status, value_of, reads>>

PrintStatistics ==
    /\ pc = "statistics"
    /\ out' = Append(out, Statistics(status))
    /\ pc' = "done"
    /\ UNCHANGED <<cfg, i, shifts, model, objective, status, value_of, reads>>

\* main() as written: it ends at the TypeError of the objective, so that the
\* solver call and the print statements that follow are never executed.
Next ==
    \/ CreateVariables
    \/ PostCoverage
    \/ PostShiftLengthAndRest
    \/ PostFairness
    \/ PostSeniorRules
    \/ PostWeekendRules
    \/ SetObjective

Spec == Init /\ [][Next]_vars

(***************************************************************************)
(* The scheduler of the specification on its scenario instances.           *)
(***************************************************************************)
\* The concrete scenario: 4 physicians, none exempt, 3 shifts, 2 days.
FourConfig == [num_physicians |-> 4, num_days |-> 2]

\* The negative scenario: fewer physicians than the peak coverage minimum.
PeakConfig == [num_physicians |-> 1, num_days |-> 1]

ScenarioConfigs ==
    {FourConfig, PeakConfig,
     [num_physicians |-> 3, num_days |-> 2], [num_physicians |-> 2, num_days |-> 2],
     [num_physicians |-> 3, num_days |-> 1], [num_physicians |-> 2, num_days |-> 1]}

ScenarioInit == \E c \in ScenarioConfigs : Start(c)

\* Every physician is night-shift eligible: nothing is posted.
ScenarioEligibility ==
    /\ pc = "senior"
    /\ pc' = "weekend"
    /\ UNCHANGED <<cfg, i, shifts, model, objective, status, value_of, reads, out>>

\* The horizon has no day 5 / day 6 pair: nothing is posted.
ScenarioWeekend ==
    /\ pc = "weekend"
    /\ pc' = "objective"
    /\ UNCHANGED <<cfg, i, shifts, model, objective, status, value_of, reads, out>>

\* The solver adapter accepts the sum of squared pairwise differences.
ScenarioObjective ==
    /\ pc = "objective"
    /\ objective' = ObjectivePairs(cfg)
    /\ pc' = "solve"
    /\ UNCHANGED <<cfg, i, shifts, model, status, value_of, reads, out>>

\* No scenario instance is satisfiable, so the schedule is never printed.
ScenarioNext ==
    \/ CreateVariables
    \/ PostCoverage
    \/ PostShiftLengthAndRest
    \/ PostFairness
    \/ ScenarioEligibility
    \/ ScenarioWeekend
    \/ ScenarioObjective
    \/ Solve
    \/ PrintNoSolution
    \/ PrintStatistics

ScenarioSpec == ScenarioInit /\ [][ScenarioNext]_vars

(***************************************************************************)
(* Properties                                                              *)
(***************************************************************************)
Solved == status \in {"OPTIMAL", "FEASIBLE"}

\* The model object is complete: every constraint family has been posted.
Posted == pc \in {"objective", "TypeError", "solve", "decode", "statistics", "done"}

\* Lines 69-77 have been executed.
PastObjective == pc \in {"TypeError", "solve", "decode", "statistics", "done"}

\* main() has returned or has been ended by an exception.
Terminated == pc \in {"done", "TypeError", "KeyError"}

\* The posted constraints contain one that bounds sum(pos) - sum(neg) to
\* lo .. hi or tighter: every assignment that satisfies the posted
\* constraints has the value of the expression in lo .. hi.
Entails(cs, pos, neg, lo, hi) ==
    \E x \in cs : x.pos = pos /\ x.neg = neg /\ lo <= x.lo /\ x.hi <= hi

OnShift(v, d, s) == {p \in all_physicians(cfg) : <<p, d, s>> \in v}

NightCount(v, p) == Cardinality({d \in all_days(cfg) : <<p, d, 2>> \in v})

SlotCount(v, p) ==
    Cardinality({<<d, s>> \in all_days(cfg) \X all_shifts : <<p, d, s>> \in v})

RECURSIVE PairSum(_, _)
PairSum(v, pairs) ==
    IF pairs = {} THEN 0
    ELSE LET pr == CHOOSE x \in pairs : TRUE
         IN  (SlotCount(v, pr[1]) - SlotCount(v, pr[2])) ^ 2 + PairSum(v, pairs \ {pr})

\* Sum over unordered physician pairs of the squared difference of their
\* numbers of assigned (day, shift) slots.
PairwiseSquaredSum(v) ==
    PairSum(v, {pr \in all_physicians(cfg) \X all_physicians(cfg) : pr[1] < pr[2]})

\* C1: every assignment that satisfies the constraints main() posts, the
\* only assignments a solver may return with status OPTIMAL or FEASIBLE, has
\* on every day and shift at least one physician assigned, and at least two
\* on the peak shifts 0 and 1: the posted constraints bound each such count
\* from below.
C1_Coverage ==
    /\ Posted =>
          \A d \in all_days(cfg), s \in all_shifts :
              Entails(model, Column(cfg, d, s), {},
                      IF s \in {0, 1} THEN 2 ELSE 1, cfg.num_physicians)
    /\ Solved =>
          \A d \in all_days(cfg), s \in all_shifts :
              Cardinality(OnShift(value_of, d, s)) >= (IF s \in {0, 1} THEN 2 ELSE 1)

\* main() as written has posted all its constraints: the morning shift of
\* day 0 is bounded by 2, and its night shift by 1 and not by 2.
C1_Witness ==
    /\ cfg = SourceConfig
    /\ Posted
    /\ Entails(model, Column(cfg, 0, 0), {}, 2, cfg.num_physicians)
    /\ Entails(model, Column(cfg, 0, 2), {}, 1, cfg.num_physicians)
    /\ ~Entails(model, Column(cfg, 0, 2), {}, 2, cfg.num_physicians)

\* C2: every assignment that satisfies the posted constraints gives any two
\* physicians p1 < p2 the same number of night shifts (shift 2): the posted
\* constraints equate the two sums.
C2_EqualNightLoad ==
    /\ Posted =>
          \A p1, p2 \in all_physicians(cfg) :
              p1 < p2 => Entails(model, night_shifts(cfg, p1),
                                 night_shifts(cfg, p2), 0, 0)
    /\ Solved =>
          \A p1, p2 \in all_physicians(cfg) :
              NightCount(value_of, p1) = NightCount(value_of, p2)

\* main() as written has posted all its constraints: the night shifts of
\* physicians 0 and 9, seven variables each, are equated.
C2_Witness ==
    /\ cfg = SourceConfig
    /\ Posted
    /\ Cardinality(night_shifts(cfg, 0)) = cfg.num_days
    /\ Entails(model, night_shifts(cfg, 0), night_shifts(cfg, 9), 0, 0)

\* C3: every assignment that satisfies the posted constraints gives the
\* physicians excluded from night shifts (8 and 9) no night shift on any
\* day: the posted constraints fix each such variable to 0.
C3_SeniorExclusion ==
    /\ Posted =>
          \A p \in {8, 9}, d \in all_days(cfg) :
              Entails(model, {<<p, d, 2>>}, {}, 0, 0)
    /\ Solved =>
          \A p \in {8, 9} \cap all_physicians(cfg) : NightCount(value_of, p) = 0

\* main() as written has posted all its constraints: the night shifts of
\* physicians 8 and 9 on day 6 are fixed to 0, that of physician 7 is not.
C3_Witness ==
    /\ cfg = SourceConfig
    /\ Posted
    /\ Entails(model, {<<8, 6, 2>>}, {}, 0, 0)
    /\ Entails(model, {<<9, 6, 2>>}, {}, 0, 0)
    /\ ~Entails(model, {<<7, 6, 2>>}, {}, 0, 0)

\* C4: every assignment that satisfies the posted constraints gives each
\* physician at most one shift on each day: the posted constraints bound
\* the physician's shifts of the day by 1.
C4_OneShiftPerDay ==
    /\ Posted =>
          \A p \in all_physicians(cfg), d \in all_days(cfg) :
              Entails(model, {<<p, d, s>> : s \in all_shifts}, {}, 0, 1)
    /\ Solved =>
          \A p \in all_physicians(cfg), d \in all_days(cfg) :
              Cardinality({s \in all_shifts : <<p, d, s>> \in value_of}) <= 1

\* main() as written has posted all its constraints: the three shifts of
\* physician 9 on day 6 are bounded by 1, with 0 allowed.
C4_Witness ==
    /\ cfg = SourceConfig
    /\ Posted
    /\ Entails(model, {<<9, 6, s>> : s \in all_shifts}, {}, 0, 1)
    /\ ~Entails(model, {<<9, 6, s>> : s \in all_shifts}, {}, 1, 1)

\* C5: every assignment that satisfies the posted constraints gives each
\* physician the same shifts on day 5 and on day 6: the posted constraints
\* equate the two variables.
C5_WeekendMirror ==
    /\ Posted =>
          \A p \in all_physicians(cfg), s \in all_shifts :
              Entails(model, {<<p, 5, s>>}, {<<p, 6, s>>}, 0, 0)
    /\ Solved =>
          \A p \in all_physicians(cfg), s \in all_shifts :
              <<p, 5, s>> \in value_of <=> <<p, 6, s>> \in value_of

\* main() as written has posted all its constraints: days 5 and 6 of
\* physician 0 are equated on shift 1, days 4 and 5 are not.
C5_Witness ==
    /\ cfg = SourceConfig
    /\ Posted
    /\ Entails(model, {<<0, 5, 1>>}, {<<0, 6, 1>>}, 0, 0)
    /\ ~Entails(model, {<<0, 4, 1>>}, {<<0, 5, 1>>}, 0, 0)

C7_Decoder ==
    /\ (pc \in {"statistics", "done"} /\ ~Solved) =>
          /\ reads = {}
          /\ out[1].kind = "No solution found."
          /\ \A k \in 2 .. Len(out) : out[k].kind # "No solution found."
          /\ \A k \in 1 .. Len(out) : out[k].kind # "Solution found:"
    /\ reads # {} => Solved
    /\ pc = "done" =>
          /\ Len(out) = 2
          /\ out[2].kind = "Statistics"
          /\ out[2].status = status

C8_RestRule ==
    /\ Posted =>
          /\ {c.pos : c \in {x \in model : x.family = "rest"}}
                = {{<<p, d, 2>>, <<p, d + 1, 0>>} :
                      p \in all_physicians(cfg), d \in 0 .. (cfg.num_days - 2)}
          /\ \A c \in model : c.family = "rest" => c.neg = {} /\ c.lo = 0 /\ c.hi = 1
          /\ cfg.num_days = 7 =>
                \A p \in all_physicians(cfg) :
                    AllSat({<<p, 6, 2>>, <<p, 0, 0>>}, {x \in model : x.family = "rest"})
    /\ Solved =>
          \A p \in all_physicians(cfg), d \in 0 .. (cfg.num_days - 2) :
              ~(<<p, d, 2>> \in value_of /\ <<p, d + 1, 0>> \in value_of)

\* main() as written has posted all its constraints: the rest constraints
\* reject night on day 5 with morning on day 6 and accept night on day 6
\* with morning on day 0.
C8_Witness ==
    /\ cfg = SourceConfig
    /\ Posted
    /\ ~AllSat({<<0, 5, 2>>, <<0, 6, 0>>}, {x \in model : x.family = "rest"})
    /\ AllSat({<<0, 6, 2>>, <<0, 0, 0>>}, {x \in model : x.family = "rest"})

\* C9: the objective handed to the solver is the sum over the physician
\* pairs p1 < p2 of the squared difference of their total shift counts, and
\* an OPTIMAL result minimises it over the assignments satisfying the
\* posted constraints.
C9_Original ==
    /\ PastObjective =>
          /\ pc # "TypeError"
          /\ objective = {pr \in all_physicians(cfg) \X all_physicians(cfg) : pr[1] < pr[2]}
    /\ status = "OPTIMAL" =>
          \A w \in FeasibleAssignments(cfg, model) :
              PairwiseSquaredSum(w) >= PairwiseSquaredSum(value_of)

\* main() as written has posted its constraints and has been ended by the
\* TypeError of the objective.
C9_Witness == cfg = SourceConfig /\ pc = "TypeError" /\ objective = {} /\ out = <<>>

\* C10: with physicians excluded from night shifts, the exclusion and the
\* equal night load force every night-shift variable to 0, against the
\* night coverage: no assignment satisfies the constraints, and the run of
\* the source's configuration prints "No solution found." and never the
\* schedule.
C10_Original ==
    /\ (Posted /\ cfg.num_days > 0) => PropagationConflict(model)
    /\ (cfg = SourceConfig /\ Terminated) =>
          /\ Len(out) >= 1
          /\ out[1].kind = "No solution found."
          /\ \A k \in 1 .. Len(out) : out[k].kind # "Solution found:"

\* The part of C10 that holds of main(): the posted constraints of a grid
\* with days are contradictory, and no schedule is printed for it.
C10_ConstraintsContradictory ==
    /\ (Posted /\ cfg.num_days > 0) => PropagationConflict(model)
    /\ cfg.num_days > 0 => ~Solved /\ \A k \in 1 .. Len(out) : out[k].kind # "Solution found:"

\* The run of the source's configuration has ended without any output.
C10_Witness == cfg = SourceConfig /\ Terminated /\ out = <<>> /\ PropagationConflict(model)

====
